---- MODULE Spec2Model ----
(***************************************************************************)
(* Model of createPausableStream (src/src/index.js): a Bacon stream whose  *)
(* source, a zero-argument generator function, is called by a chain of     *)
(* promise continuations that stops when the stream is paused or ended.    *)
(*                                                                         *)
(* JavaScript values are modelled by strings: the pause values are "true"  *)
(* and "false", the unset flag is "null", the producer's results are the   *)
(* ordinary values of Values, "undefined", the Bacon.End event "End", and  *)
(* "throw" for a call of the generator function that raises.               *)
(***************************************************************************)
EXTENDS Integers, Sequences, FiniteSets, TLC

\* Longest producer script explored.
MaxLen == 3
\* Largest number of pause()/resume() calls explored.
MaxCalls == 4
\* Largest number of calls of the generator function explored.
MaxPulls == 8

null == "null"
End == "End"
Undefined == "undefined"
Throws == "throw"
Values == {"v1", "v2"}
\* What a call of an ES6 generator function returns: an object that is no
\* Bacon event.
GeneratorObject == "generator"
\* The kinds of first argument of createPausableStream.
ArgKinds == {"function", "generatorFunction", "generatorObject", "object", "array"}
Outcomes == Values \cup {Undefined, End, Throws}
PauseValues == {"true", "false"}

VARIABLES
    producer,        \* kind of the first argument of createPausableStream
    stream,          \* "none" before createPausableStream is called, then
                     \* "created" when it returned the stream, "threw" if not
    script,          \* what the generator function returns, call after call
    initiallyPaused, \* second argument of createPausableStream
    subscribed,      \* the binder of Bacon.fromBinder has run
    pauseProperty,   \* current value of pauseProperty
    paused,          \* let paused
    hasEnded,        \* let hasEnded
    scheduled,       \* promise continuations of repeatUntilPaused not yet run
    inflight,        \* calls of func() that have not returned yet
    invocations,     \* number of calls of generatorFunction so far
    forwarded,       \* events passed to sink(), in order
    delivered,       \* events the subscribers were called with, in order
    rejections,      \* promises of repeatUntilPaused rejected by an exception
    ncalls,          \* number of pause()/resume() calls so far
    lastCall,        \* the latest pause()/resume() call and its context
    pauseMark,       \* values delivered when pause() was last called from a
                     \* value callback; -1 after a resume() or without one
    cbPauses,        \* pause() calls made from the callback now running
    disc             \* the consumer has so far paused once in every value
                     \* callback and resumed only from outside, when paused

progVars == <<producer, stream, script, initiallyPaused, subscribed, pauseProperty, paused,
              hasEnded, scheduled, inflight, invocations, forwarded,
              delivered, rejections>>
histVars == <<ncalls, lastCall, pauseMark, cbPauses, disc>>
vars == <<producer, stream, script, initiallyPaused, subscribed, pauseProperty, paused,
          hasEnded, scheduled, inflight, invocations, forwarded,
          delivered, rejections, ncalls, lastCall, pauseMark, cbPauses, disc>>

------------------------------------------------------------------------------
\* Helpers

RECURSIVE SeqsUpTo(_, _)
SeqsUpTo(S, n) ==
    IF n = 0 THEN {<<>>}
    ELSE LET shorter == SeqsUpTo(S, n - 1)
         IN  shorter \cup {Append(s, x) : s \in {t \in shorter : Len(t) = n - 1}, x \in S}

Scripts == SeqsUpTo(Outcomes, MaxLen)

\* !x of JavaScript on a pause value or null.
Not(x) == x \in {null, "false"}

\* The result of the i-th call of the generator function. The producer of
\* the example, () => iter.next().value, returns undefined once its
\* generator is exhausted.
Outcome(i) ==
    IF producer = "generatorFunction" THEN GeneratorObject
    ELSE IF i <= Len(script) THEN script[i] ELSE Undefined

\* streamEvent.isEnd && streamEvent.isEnd(): raises a TypeError on
\* undefined, because a property of undefined is read.
IsEndRaises(streamEvent) == streamEvent = Undefined
\* pauseSink takes no event for an End.
IsEndNever(streamEvent) == FALSE

IsEnd(streamEvent) == streamEvent = End

\* The Bacon stream has delivered its End: its dispatcher then has no
\* subscriber left and drops what is pushed to it.
streamEnded == \E i \in 1..Len(delivered) : delivered[i] = End

\* The calls of the subscribers' error callback: Bacon makes one for each
\* Bacon.Error event passed to sink(), and pauseSink passes to sink() only
\* what the generator function returned.
onErrorCalls == SelectSeq(delivered, LAMBDA e : e = "Error")

\* Number of ordinary values delivered.
NumValues(s) == Cardinality({i \in 1..Len(s) : s[i] # End})

\* The continuation runs at once, on top of whatever is running.
MicrotaskRunnableSync == TRUE

\* A continuation of Promise.resolve().then(...) runs as a microtask, when
\* no JavaScript is on the call stack.
MicrotaskRunnable == inflight = 0

------------------------------------------------------------------------------
\* createPausableStream

\* typeof generatorFunction: an ES6 generator function is a function, a
\* generator object and an array are objects.
typeof(arg) == IF arg \in {"function", "generatorFunction"} THEN "function" ELSE "object"

Init ==
    /\ producer \in ArgKinds
    /\ stream = "none"
    /\ script \in IF producer \in {"function", "generatorObject"} THEN Scripts ELSE {<<>>}
    /\ initiallyPaused \in PauseValues
    /\ subscribed = FALSE
    /\ pauseProperty = initiallyPaused
    /\ paused = null
    /\ hasEnded = FALSE
    /\ scheduled = 0
    /\ inflight = 0
    /\ invocations = 0
    /\ forwarded = <<>>
    /\ delivered = <<>>
    /\ rejections = 0
    /\ ncalls = 0
    /\ lastCall = [op |-> "none", ended |-> FALSE, cb |-> FALSE, sub |-> FALSE,
                   same |-> 0, repeated |-> FALSE, effective |-> FALSE,
                   loops |-> 0, fresh |-> FALSE, inv |-> 0]
    /\ pauseMark = -1
    /\ cbPauses = 0
    /\ disc = TRUE

\* if(typeof generatorFunction !== 'function') throw new Error(...)
IsValidProducer(arg) == typeof(arg) = "function"

\* The call createPausableStream(generatorFunction, initiallyPaused): it
\* throws or it returns the stream, and calls no producer.
Create ==
    /\ stream = "none"
    /\ stream' = IF IsValidProducer(producer) THEN "created" ELSE "threw"
    /\ UNCHANGED <<producer, script, initiallyPaused, subscribed, pauseProperty,
                   paused, hasEnded, scheduled, inflight, invocations,
                   forwarded, delivered, rejections>>
    /\ UNCHANGED histVars

\* A step other than a call of pause() or resume() has been taken since
\* the latest call.
Stale(call) == [call EXCEPT !.fresh = FALSE]

\* The handler reacts to every value of the property.
ValueChangedAlways(pauseValue) == TRUE

\* if(paused !== pauseValue)
ValueChanged(pauseValue) == paused # pauseValue

\* The handler starts the chain without looking at hasEnded.
ShouldStartNoEndCheck(pauseValue) == Not(pauseValue)

\* The handler starts the chain on every change of the value.
ShouldStartAnyValue(pauseValue) == ~hasEnded

\* if(!paused && !hasEnded), evaluated after paused = pauseValue
ShouldStart(pauseValue) == Not(pauseValue) /\ ~hasEnded

\* repeatUntilPaused(func) puts one continuation on the microtask queue.
repeatUntilPaused(n) == n + 1

\* The callback of pauseProperty.onValue.
onPauseValue(pauseValue) ==
    IF ValueChanged(pauseValue)
    THEN /\ paused' = pauseValue
         /\ scheduled' = IF ShouldStart(pauseValue)
                         THEN repeatUntilPaused(scheduled)
                         ELSE scheduled
    ELSE UNCHANGED <<paused, scheduled>>

\* The first subscriber attaches to the stream: Bacon calls the binder,
\* which subscribes to pauseProperty and is handed its current value.
Subscribe ==
    /\ stream = "created"
    /\ ~subscribed
    /\ subscribed' = TRUE
    /\ onPauseValue(pauseProperty)
    /\ lastCall' = Stale(lastCall)
    /\ UNCHANGED <<producer, stream, script, initiallyPaused, pauseProperty,
                   hasEnded, inflight, invocations, forwarded, delivered,
                   rejections>>
    /\ UNCHANGED <<ncalls, pauseMark, cbPauses, disc>>

\* The value reaches the handler whether or not the binder has run.
pushAlways(value) ==
    /\ pauseProperty' = value
    /\ onPauseValue(value)

\* pauseStream.push(value): a Bus without subscriber drops the value, and
\* pauseProperty subscribes to the Bus only when the binder has run.
push(value) ==
    IF subscribed
    THEN /\ pauseProperty' = value
         /\ onPauseValue(value)
    ELSE UNCHANGED <<pauseProperty, paused, scheduled>>

\* A subscriber's callback is running: the event being forwarded.
inCallback == inflight > 0
inValueCallback == inCallback /\ delivered # <<>> /\ delivered[Len(delivered)] # End

\* Records a call of pause() or resume(): whether the stream had ended, a
\* callback was running and the binder had run, how many calls of this
\* operation were made in a row, whether it repeats the previous call in
\* the same subscription state, whether it changed the paused flag, how
\* many iterations were scheduled or running before it, that no other
\* step has been taken since, and how many calls of the generator function
\* had been made before it (before the first of a row of pause() calls).
Called(op, value) ==
    /\ stream = "created"
    /\ ncalls < MaxCalls
    /\ ncalls' = ncalls + 1
    /\ lastCall' = [op |-> op, ended |-> hasEnded, cb |-> inCallback,
                    sub |-> subscribed,
                    same |-> IF lastCall.op = op THEN lastCall.same + 1 ELSE 1,
                    repeated |-> (lastCall.op = op /\ lastCall.sub = subscribed),
                    effective |-> (subscribed /\ paused # value),
                    loops |-> scheduled + inflight, fresh |-> TRUE,
                    inv |-> IF op = "pause" /\ lastCall.op = "pause" /\ lastCall.sub
                            THEN lastCall.inv ELSE invocations]

\* pausableStream.pause()
Pause ==
    /\ Called("pause", "true")
    /\ push("true")
    /\ pauseMark' = IF inValueCallback THEN NumValues(delivered) ELSE pauseMark
    /\ cbPauses' = IF inCallback THEN cbPauses + 1 ELSE cbPauses
    /\ disc' = (disc /\ inValueCallback /\ cbPauses = 0)
    /\ UNCHANGED <<producer, stream, script, initiallyPaused, subscribed,
                   hasEnded, inflight, invocations, forwarded, delivered,
                   rejections>>

\* pausableStream.resume()
Resume ==
    /\ Called("resume", "false")
    /\ push("false")
    /\ pauseMark' = -1
    /\ disc' = (disc /\ ~inCallback /\ subscribed /\ pauseProperty = "true")
    /\ UNCHANGED <<producer, stream, script, initiallyPaused, subscribed,
                   hasEnded, inflight, invocations, forwarded, delivered,
                   rejections, cbPauses>>

\* The continuation repeats without looking at paused.
ShouldRepeatIgnorePause(ended) == ~ended

\* if(!paused && !hasEnded) return repeatUntilPaused(func)
ShouldRepeat(ended) == Not(paused) /\ ~ended

\* One continuation of repeatUntilPaused runs func(), that is
\* pauseSink(generatorFunction()), up to the point where sink() calls the
\* subscribers. An exception of generatorFunction or of pauseSink rejects
\* the promise and ends this chain of continuations. An event pushed to a
\* stream that has ended reaches no subscriber and func() returns at once.
PumpIteration ==
    /\ scheduled > 0
    /\ MicrotaskRunnable
    /\ invocations < MaxPulls
    /\ invocations' = invocations + 1
    /\ LET streamEvent == Outcome(invocations + 1)
       IN  IF streamEvent = Throws \/ IsEndRaises(streamEvent)
           THEN /\ scheduled' = scheduled - 1
                /\ rejections' = rejections + 1
                /\ UNCHANGED <<hasEnded, forwarded, delivered, inflight, cbPauses>>
           ELSE /\ hasEnded' = (hasEnded \/ IsEnd(streamEvent))
                /\ forwarded' = Append(forwarded, streamEvent)
                /\ rejections' = rejections
                /\ IF streamEnded
                   THEN /\ scheduled' = IF ShouldRepeat(hasEnded')
                                        THEN repeatUntilPaused(scheduled - 1)
                                        ELSE scheduled - 1
                        /\ UNCHANGED <<delivered, inflight, cbPauses>>
                   ELSE /\ delivered' = Append(delivered, streamEvent)
                        /\ inflight' = inflight + 1
                        /\ scheduled' = scheduled - 1
                        /\ cbPauses' = 0
    /\ lastCall' = Stale(lastCall)
    /\ UNCHANGED <<producer, stream, script, initiallyPaused, subscribed,
                   pauseProperty, paused>>
    /\ UNCHANGED <<ncalls, pauseMark, disc>>

\* The subscribers' callbacks return, sink() and func() return, and the
\* continuation decides whether to repeat.
PumpReturn ==
    /\ inflight > 0
    /\ inflight' = inflight - 1
    /\ scheduled' = IF ShouldRepeat(hasEnded) THEN repeatUntilPaused(scheduled) ELSE scheduled
    /\ disc' = (disc /\ (inValueCallback => cbPauses = 1))
    /\ lastCall' = Stale(lastCall)
    /\ UNCHANGED <<producer, stream, script, initiallyPaused, subscribed,
                   pauseProperty, paused, hasEnded, invocations, forwarded,
                   delivered, rejections>>
    /\ UNCHANGED <<ncalls, pauseMark, cbPauses>>

Next == Create \/ Subscribe \/ Pause \/ Resume \/ PumpIteration \/ PumpReturn

Spec == Init /\ [][Next]_vars

------------------------------------------------------------------------------
\* Vocabulary of the properties

\* The producer is a callback that yields a termination sentinel, and no
\* call of it raises before that.
HasSentinel ==
    \E i \in 1..Len(script) :
        /\ producer = "function"
        /\ script[i] = End
        /\ \A j \in 1..(i - 1) : script[j] \notin {End, Throws}

FirstEnd == CHOOSE i \in 1..Len(script) :
                script[i] = End /\ \A j \in 1..(i - 1) : script[j] # End

\* The events the producer yields before its termination sentinel.
S == SubSeq(script, 1, FirstEnd - 1)

\* The events the producer returns, in order: a call that raises returns
\* none.
Yielded == SelectSeq(script, LAMBDA e : e # Throws)

IsPrefix(s, t) == Len(s) <= Len(t) /\ \A i \in 1..Len(s) : s[i] = t[i]

\* The ordinary values among the delivered events.
deliveredValues == SelectSeq(delivered, LAMBDA e : e # End)

\* Nothing is running and nothing is scheduled.
Quiescent == subscribed /\ scheduled = 0 /\ inflight = 0

\* A step that is a call of pause() or resume().
IsCall == ncalls' = ncalls + 1

\* No resume() has been called so far.
NoResumeYet == ncalls = 0 \/ (lastCall.op = "pause" /\ lastCall.same = ncalls)

------------------------------------------------------------------------------
\* Properties

\* C1: when pause() and resume() are never called on a stream that starts
\* unpaused, the subscribers receive the events of S in order and nothing
\* else, and once the pump has stopped they have received all of S followed
\* by one termination signal.
C1_NoCallsDeliversAll ==
    (HasSentinel /\ initiallyPaused = "false" /\ ncalls = 0)
        => /\ IsPrefix(delivered, Append(S, End))
           /\ Quiescent => delivered = Append(S, End)

\* C2: the generator function is not called in a state where the paused
\* flag is true.
C2_NoPullWhilePaused == [][paused = "true" => invocations' = invocations]_vars

\* C3: after pause() is called from the callback of the k-th value and
\* until resume() is called, the values delivered are the first k elements
\* of the producer's sequence.
C3_PausedAfterKth ==
    pauseMark >= 0 => /\ Len(deliveredValues) = pauseMark
                      /\ IsPrefix(deliveredValues, Yielded)

\* C4: a stream created with initiallyPaused = true calls the producer and
\* delivers nothing before resume() is called; after a single resume() and
\* no other call, once the pump has stopped, all of S followed by the
\* termination signal has been delivered in order.
C4_InitiallyPaused ==
    initiallyPaused = "true"
        => /\ NoResumeYet => (invocations = 0 /\ delivered = <<>>)
           /\ (HasSentinel /\ ncalls = 1 /\ lastCall.op = "resume" /\ lastCall.sub)
                  => /\ IsPrefix(delivered, Append(S, End))
                     /\ Quiescent => delivered = Append(S, End)

\* C5: when the consumer calls pause() in the callback of every value and
\* resume() later, from outside a callback, the events delivered are those
\* of S in order, and once the pump has stopped with the stream resumed all
\* of S followed by the termination signal has been delivered.
C5_PauseEveryValue ==
    (HasSentinel /\ disc)
        => /\ IsPrefix(delivered, Append(S, End))
           /\ (Quiescent /\ paused = "false") => delivered = Append(S, End)

\* C6: a call of pause() or resume() that repeats the previous call changes
\* nothing: not the paused flag, the ended flag, the scheduled iterations
\* nor the delivered events.
C6_Idempotent == [][(IsCall /\ lastCall'.repeated) => UNCHANGED progVars]_vars

C6_Witness ==
    /\ lastCall.repeated /\ lastCall.sub /\ lastCall.op = "resume"
    /\ scheduled = 1 /\ ~hasEnded

\* C7: once the ended flag is set, the generator function is not called
\* again.
C7_NoPullAfterEnd == [][hasEnded => invocations' = invocations]_vars

\* C8: a call of pause() or resume() made after the stream has ended
\* schedules no iteration, calls no producer, forwards and delivers nothing
\* and raises nothing.
C8_CallAfterEnd ==
    [][(IsCall /\ hasEnded)
          => UNCHANGED <<hasEnded, scheduled, inflight, invocations, forwarded,
                         delivered, rejections>>]_vars

C8_Witness ==
    /\ lastCall.ended /\ lastCall.op = "resume" /\ lastCall.effective
    /\ paused = "false" /\ scheduled = 0

\* C9: at most one pump iteration is scheduled or executing.
C9_OneLoop == scheduled + inflight <= 1

\* C10: the generator function is called only when no earlier call of it,
\* and no forwarding of its result, is still running.
C10_OnePullInFlight == [][invocations' # invocations => inflight = 0]_vars

C10_Witness ==
    /\ inflight = 1 /\ scheduled >= 1
    /\ lastCall.op = "resume" /\ lastCall.cb /\ lastCall.effective

------------------------------------------------------------------------------
\* Vocabulary of the properties, continued

Min(a, b) == IF a <= b THEN a ELSE b

\* The events pulled so far from the producer's sequence.
PulledEvents ==
    SelectSeq(SubSeq(script, 1, Min(invocations, Len(script))),
              LAMBDA e : e # Throws)

\* A step that calls the generator function, and what the call returns.
IsPull == invocations' = invocations + 1
PullResult == Outcome(invocations + 1)

\* A call of the generator function has raised.
Raised == \E i \in 1..invocations : Outcome(i) = Throws

\* The first argument is a generator object that yields the elements of
\* script but the last, none of them the sentinel, and completes with the
\* last one.
IteratorCompletes ==
    /\ producer = "generatorObject"
    /\ script # <<>>
    /\ script[Len(script)] # Throws
    /\ \A j \in 1..(Len(script) - 1) : script[j] \notin {End, Throws}

\* What that iterator is to make the stream forward.
IteratorForwarded ==
    IF script[Len(script)] = End THEN script ELSE Append(script, End)

NumEnds(s) == Cardinality({i \in 1..Len(s) : s[i] = End})

\* The value of the gate after the latest call.
CalledValue(call) == IF call.op = "pause" THEN "true" ELSE "false"

------------------------------------------------------------------------------
\* Properties, continued

\* C11: the events forwarded to the sink are the events pulled from the
\* producer, each once and in pull order, and the values delivered are a
\* prefix of the producer's sequence.
C11_ForwardedIsPulled ==
    producer = "function"
        => /\ forwarded = PulledEvents
           /\ IsPrefix(deliveredValues, Yielded)

\* C12: when the producer yields the sentinel while it has later elements,
\* no later element is pulled, forwarded or delivered, and once the pump
\* has stopped with the stream not paused exactly the values before the
\* sentinel and one sentinel have been forwarded and delivered.
C12_SentinelInTheMiddle ==
    (HasSentinel /\ FirstEnd < Len(script))
        => /\ invocations <= FirstEnd
           /\ IsPrefix(forwarded, Append(S, End))
           /\ IsPrefix(delivered, Append(S, End))
           /\ (Quiescent /\ paused = "false")
                  => (forwarded = Append(S, End) /\ delivered = Append(S, End))

\* C13: a stream made from an iterator that completes with the value v
\* forwards the yielded values, then v, then a sentinel if and only if v is
\* not the sentinel, and its subscribers see one termination signal.
C13_IteratorCompletion ==
    (IteratorCompletes /\ stream # "none")
        => /\ stream = "created"
           /\ IsPrefix(forwarded, IteratorForwarded)
           /\ (hasEnded /\ inflight = 0)
                  => (forwarded = IteratorForwarded /\ NumEnds(delivered) = 1)

\* C14: a pull of a callback producer that returns undefined forwards
\* undefined to the sink, leaves the ended flag as it is and does not stop
\* the chain of iterations.
C14_UndefinedIsOrdinary ==
    [][(producer = "function" /\ IsPull /\ invocations < Len(script)
            /\ PullResult = Undefined)
          => /\ forwarded' = Append(forwarded, Undefined)
             /\ hasEnded' = hasEnded
             /\ rejections' = rejections]_vars

\* C15: a pull that raises makes one call of the subscribers' error
\* callback.
C15_FailureOnErrorChannel ==
    [][(IsPull /\ PullResult = Throws)
          => Len(onErrorCalls') = Len(onErrorCalls) + 1]_vars

\* C16: after a pull has raised, the generator function is not called
\* again.
C16_NoPullAfterFailure == [][Raised => ~IsPull]_vars

\* C17: createPausableStream throws, creating no stream and calling no
\* producer, for every argument that is not a plain function: an object,
\* an array, a generator function.
C17_RejectsNonCallback ==
    (stream # "none" /\ producer # "function")
        => (stream = "threw" /\ invocations = 0)

\* C18: createPausableStream throws, before any pull, for a plain
\* function, a generator function, an object and an array, and returns
\* the stream for a generator object.
C18_AcceptsOnlyIterator ==
    stream # "none"
        => /\ stream = "threw" <=> producer # "generatorObject"
           /\ stream = "threw" => invocations = 0

\* C19: a call of pause() or resume() that directly follows a call of the
\* other operation leaves the gate at its own value and as many iterations
\* scheduled or running as before the pair of calls.
C19_SameTickCompose ==
    [][(IsCall /\ lastCall.fresh /\ lastCall.sub /\ lastCall.op # lastCall'.op)
          => /\ pauseProperty' = CalledValue(lastCall')
             /\ scheduled' + inflight' = lastCall.loops]_vars

\* C20: a call of pause() or resume() schedules an iteration only if it is
\* a resume() that changes the paused flag of a stream that has not ended,
\* and then schedules one; subscribing schedules one only for a stream
\* that starts unpaused; a call that does not change the flag changes
\* nothing.
C20_StartOnlyOnTransition ==
    [][/\ IsCall
          => /\ scheduled' = IF lastCall'.effective /\ lastCall'.op = "resume"
                                 /\ ~hasEnded
                             THEN scheduled + 1 ELSE scheduled
             /\ ~lastCall'.effective => UNCHANGED progVars
       /\ (subscribed' # subscribed)
          => scheduled' = IF pauseProperty = "false" THEN scheduled + 1
                          ELSE scheduled]_vars

C20_Witness ==
    /\ lastCall.fresh /\ lastCall.cb /\ lastCall.sub
    /\ lastCall.op = "resume" /\ ~lastCall.effective
    /\ paused = "false" /\ ~hasEnded

------------------------------------------------------------------------------
\* Properties, continued

\* A step in which func() returns after its event was passed to sink():
\* the return from the subscribers' callbacks, or the whole of an iteration
\* on a stream that has ended.
ForwardReturns ==
    \/ inflight' < inflight
    \/ (IsPull /\ forwarded' # forwarded /\ inflight' = inflight)

\* The continuation that made this step is no longer scheduled.
Consumed == IF IsPull THEN 1 ELSE 0

\* The callback of the End event is running.
inEndCallback == inCallback /\ delivered # <<>> /\ delivered[Len(delivered)] = End

\* C21: after a pause() with no later resume(), at most one more call of
\* the generator function is made, and no iteration reschedules itself.
C21_PauseTakesEffect ==
    /\ [](lastCall.op = "pause" /\ lastCall.sub
             => invocations - lastCall.inv <= 1)
    /\ [][(paused = "true" /\ ~IsCall) => scheduled' <= scheduled]_vars

\* C22: when func() returns after forwarding its event, the continuation
\* schedules the next iteration if and only if, at that moment, the paused
\* flag is false and the ended flag is false.
C22_StopCondition ==
    [][ForwardReturns
          => scheduled' = (scheduled - Consumed)
                          + (IF Not(paused') /\ ~hasEnded' THEN 1 ELSE 0)]_vars

C22_Witness ==
    /\ lastCall.op = "pause" /\ lastCall.cb /\ lastCall.effective
    /\ ~lastCall.fresh /\ ~lastCall.ended
    /\ inflight = 0 /\ scheduled = 0 /\ ~hasEnded /\ forwarded # <<>>

\* C23: while the subscribers are called with the End event the ended flag
\* is already set, and a pause() or resume() made from there schedules no
\* iteration and calls no producer.
C23_EndedBeforeSink ==
    /\ [](inEndCallback => hasEnded)
    /\ [][(IsCall /\ inEndCallback)
             => (scheduled' = scheduled /\ invocations' = invocations)]_vars

C23_Witness ==
    /\ inEndCallback /\ scheduled = 0
    /\ lastCall.op = "resume" /\ lastCall.cb /\ lastCall.ended
    /\ lastCall.effective /\ lastCall.fresh

\* C24: every call of the generator function is made by a continuation
\* taken from the microtask queue while nothing else is running, which
\* forwards at most one event and schedules nothing before func() returns;
\* no call of pause() or resume() calls the generator function.
C24_OneSuspensionPerPull ==
    [][IsPull
          => /\ scheduled >= 1 /\ inflight = 0
             /\ ~IsCall
             /\ Len(forwarded') <= Len(forwarded) + 1
             /\ scheduled' = scheduled - 1]_vars

C24_Witness ==
    /\ invocations >= 2 /\ inflight = 1 /\ Len(forwarded) >= 2
    /\ scheduled = 0 /\ ~hasEnded

\* C25: once the stream is subscribed, the gate and the paused flag hold
\* the value of the latest pause() or resume() call, made before or after
\* the subscription, or initiallyPaused if there was none.
C25_GateFollowsCalls ==
    subscribed
        => /\ pauseProperty = IF ncalls = 0 THEN initiallyPaused
                              ELSE CalledValue(lastCall)
           /\ paused = pauseProperty

\* C26: the termination sentinel is forwarded to the sink at most once and
\* no event is forwarded after it.
C26_SentinelForwardedLast ==
    \A i \in 1..Len(forwarded) : forwarded[i] = End => i = Len(forwarded)

\* C27: once subscribed, a stream that is neither paused nor ended has a
\* pump iteration scheduled or executing.
C27_NeverStalls ==
    (subscribed /\ paused = "false" /\ ~hasEnded) => scheduled + inflight >= 1

\* C28: before the first subscriber attaches, the generator function is
\* not called and no iteration is scheduled, whatever initiallyPaused is
\* and whatever pause() and resume() calls are made.
C28_Lazy ==
    ~subscribed
        => (invocations = 0 /\ scheduled = 0 /\ inflight = 0)

C28_Witness ==
    /\ ~subscribed /\ stream = "created" /\ initiallyPaused = "false"
    /\ lastCall.op = "resume" /\ ncalls >= 2
====
